---------------------------- MODULE Spec2Model ----------------------------
(***************************************************************************)
(* Model of nats-fs: an HTTP-style GET carried over NATS with windowed     *)
(* flow control.                                                           *)
(*                                                                         *)
(*   server/main.go  nrw (the response writer of one transfer), its ack    *)
(*                   callback processFlowAck and natsHandleFunc            *)
(*   client/main.go  main (the requestor loop) and isPrintable             *)
(*                                                                         *)
(* Strings are sequences of atoms.  An atom is one character ("2", ".",    *)
(* " ") or a run of characters that holds no separator ("_INBOX", "OK").   *)
(* Byte slices are sequences of byte values 0..255; the server only ever   *)
(* looks at len(data), so on the server side a chunk is its length.        *)
(***************************************************************************)
EXTENDS Integers, Sequences, FiniteSets, TLC

Nil == "nil"

\* A pointer that may be nil: None, or Some(x).
None == <<>>

Some(x) == <<x>>

\* ------------------------------------------------------------ bounds
\* Write calls of one transfer that reach the publish.
MaxWrites == 2
\* WriteHeader calls of one transfer.
MaxHdrs == 2
\* Body messages the bus delivers to the client's reply address.
MaxMsgs == 3

\* ------------------------------------------------------------ strings
DigitChars == <<"0", "1", "2", "3", "4", "5", "6", "7", "8", "9">>

IsDigit(c) == \E i \in 1..10 : DigitChars[i] = c

DigitVal(c) == (CHOOSE i \in 1..10 : DigitChars[i] = c) - 1

RECURSIVE ItoaNat(_)
ItoaNat(n) ==
  IF n < 10 THEN <<DigitChars[n + 1]>>
  ELSE ItoaNat(n \div 10) \o <<DigitChars[(n % 10) + 1]>>

\* A classic slip of a hand-written formatter: the digits come out reversed.
ItoaReversed(n) ==
  LET s == IF n < 0 THEN ItoaNat(0 - n) ELSE ItoaNat(n)
  IN [i \in 1..Len(s) |-> s[Len(s) + 1 - i]]

\* fmt's %d verb.
Itoa(n) == IF n < 0 THEN <<"-">> \o ItoaNat(0 - n) ELSE ItoaNat(n)

RECURSIVE DigitsVal(_)
DigitsVal(s) ==
  IF s = <<>> THEN 0
  ELSE 10 * DigitsVal(SubSeq(s, 1, Len(s) - 1)) + DigitVal(s[Len(s)])

\* C's atoi: the leading digits count and what follows them is dropped.
AtoiLenient(s) ==
  LET n == IF \A i \in 1..Len(s) : IsDigit(s[i]) THEN Len(s)
           ELSE (CHOOSE k \in 1..Len(s) :
                   ~IsDigit(s[k]) /\ \A j \in 1..(k - 1) : IsDigit(s[j])) - 1
  IN IF n = 0 THEN [err |-> TRUE, val |-> 0]
     ELSE [err |-> FALSE, val |-> DigitsVal(SubSeq(s, 1, n))]

\* strconv.Atoi: an optional sign, then one or more decimal digits.
Atoi(s) ==
  LET signed == s # <<>> /\ s[1] \in {"+", "-"}
      body   == IF signed THEN Tail(s) ELSE s
  IN IF body = <<>> \/ \E i \in 1..Len(body) : ~IsDigit(body[i])
     THEN [err |-> TRUE, val |-> 0]
     ELSE [err |-> FALSE,
           val |-> IF signed /\ s[1] = "-" THEN 0 - DigitsVal(body)
                   ELSE DigitsVal(body)]

\* strings.Split(s, sep) for a one-character separator.
RECURSIVE Split(_, _)
Split(s, sep) ==
  IF \A i \in 1..Len(s) : s[i] # sep THEN <<s>>
  ELSE LET i == CHOOSE k \in 1..Len(s) :
                  s[k] = sep /\ \A j \in 1..(k - 1) : s[j] # sep
       IN <<SubSeq(s, 1, i - 1)>> \o Split(SubSeq(s, i + 1, Len(s)), sep)

\* strings.HasPrefix.
HasPrefix(s, prefix) ==
  Len(s) >= Len(prefix) /\ SubSeq(s, 1, Len(prefix)) = prefix

\* NATS subject matching, with the one-token wildcard "*".
SubjectMatches(pattern, subject) ==
  LET p == Split(pattern, ".")
      t == Split(subject, ".")
  IN /\ Len(p) = Len(t)
     /\ \A i \in 1..Len(p) : t[i] # <<>> /\ (p[i] = <<"*">> \/ p[i] = t[i])

\* http.StatusText.
StatusText(code) ==
  CASE code = 200 -> <<"OK">>
    [] code = 204 -> <<"No Content">>
    [] code = 404 -> <<"Not Found">>
    [] OTHER -> <<>>

\* fmt.Sprintf("%d %s", statusCode, http.StatusText(statusCode)).
StatusLine(code) == Itoa(code) \o <<" ">> \o StatusText(code)

\* ------------------------------------------------------------ server
\* The reply address the request message carries (m.Reply).
ReplySubject == <<"_INBOX", ".", "req">>

\* What nats.NewInbox returns for the transfer.
NewInbox == <<"_INBOX", ".", "ack">>

defaultWindowSize == 32 * 1024 * 1024

\* len(data) of the Write calls a handler makes.
ChunkSizes == {0, 7, 40 * 1024 * 1024}

\* The status codes a handler passes to WriteHeader.
StatusCodes == {200, 404}

VARIABLES
  hdr,        \* nrw.hdr: None, or Some header message [Status |-> values]
  inbox,      \* nrw.inbox ("" until the first Write)
  asub,       \* nrw.asub: Nil | "active" | "unsub"
  acks,       \* nrw.acks: None, or Some buffer of the 1-slot channel
  pending,    \* nrw.pending
  mu,         \* nrw's mutex: "free" | "writer"
  wpc,        \* where the goroutine using the writer stands
  wdata,      \* len(data) of the Write in progress
  wret,       \* what the last Write returned: [n, err]
  returned,   \* the handler has returned and the goroutine unsubscribed
  out,        \* messages published on the reply address, in order
  written,    \* indices of out whose Write returned without error
  acked,      \* indices of out the client has acked
  ackbus,     \* acks in flight to the server: [subj, of]
  processed   \* indices of out whose ack reached processFlowAck

svars == <<hdr, inbox, asub, acks, pending, mu, wpc, wdata, wret, returned,
           out, written, acked, ackbus, processed>>

VARIABLES
  output,     \* the -output flag is set
  cpc,        \* where client main stands
  cerr,       \* the log.Fatalf that ended main: [kind, text]
  first,      \* None, or Some first message (the header message)
  fd,         \* the output file is open (fd != nil)
  cl,         \* Content-Length as parsed
  received,   \* the loop's received
  checked,    \* the loop's checked
  msg,        \* the loop's msg, the chunk in hand
  inq,        \* messages waiting in the client's subscription
  sent,       \* the body messages delivered so far, in order
  consumed,   \* the body messages NextMsg returned, in order
  rxFault,    \* a NextMsg of the loop timed out or failed
  classified, \* the data isPrintable was called with, in order
  sunk,       \* the chunks passed to the sink: [data, reply, ok]
  cacks       \* subjects of the acks the client published, in order

cvars == <<output, cpc, cerr, first, fd, cl, received, checked, msg, inq,
           sent, consumed, rxFault, classified, sunk, cacks>>

VARIABLES
  tr,         \* the writer and handler of each request: one nrw per request
  reqs,       \* requests waiting in the subscription on the subject
  disp,       \* the request whose callback the subscription is running
  abus        \* acks in flight to a subscription: [subj, to, of, k]

mvars == <<tr, reqs, disp, abus>>

vars == <<svars, cvars, mvars>>

\* The requests the server gets.
Transfers == {1, 2}

\* Before its request arrives a transfer has no writer; the fields are those
\* of &nrw{...} at line 166.
NoTransfer ==
  [st |-> "none", inbox |-> <<>>, asub |-> Nil, acks |-> None, pending |-> 0,
   mu |-> "free", wpc |-> "idle", nout |-> 0, acked |-> {}, processed |-> {}]

MultiStart ==
  /\ tr = [t \in Transfers |-> NoTransfer]
  /\ reqs = <<>>
  /\ disp = {}
  /\ abus = {}

HdrMsg(h) == [subj |-> ReplySubject, reply |-> <<>>, header |-> h, size |-> 0]

ChunkMsg(reply, n) ==
  [subj |-> ReplySubject, reply |-> reply, header |-> None, size |-> n]

IsChunk(m) == m.header = None

NChunks == Cardinality({i \in 1..Len(out) : IsChunk(out[i])})

NHdrs == Cardinality({i \in 1..Len(out) : ~IsChunk(out[i])})

ServerInit ==
  /\ hdr = None
  /\ inbox = <<>>
  /\ asub = Nil
  /\ acks = None
  /\ pending = 0
  /\ mu = "free"
  /\ wpc = "idle"
  /\ wdata = 0
  /\ wret = [n |-> 0, err |-> Nil]
  /\ returned = FALSE
  /\ out = <<>>
  /\ written = {}
  /\ acked = {}
  /\ ackbus = {}
  /\ processed = {}

NoMsg == [header |-> None, data |-> <<>>, reply |-> <<>>]

NoErr == [kind |-> Nil, text |-> <<>>]

\* client main before its first receive (lines 29-78).
ClientStart(o) ==
  /\ output = o
  /\ cpc = "first"
  /\ cerr = NoErr
  /\ first = None
  /\ fd = FALSE
  /\ cl = 0
  /\ received = 0
  /\ checked = FALSE
  /\ msg = NoMsg
  /\ inq = <<>>
  /\ sent = <<>>
  /\ consumed = <<>>
  /\ rxFault = FALSE
  /\ classified = <<>>
  /\ sunk = <<>>
  /\ cacks = <<>>

Init == ServerInit /\ ClientStart(FALSE) /\ MultiStart

\* The ack reply of a chunk: fmt.Sprintf("%s.%d", w.inbox, len(data)).
AckReply(box, n) == box \o <<".">> \o Itoa(n)

\* nrw.Header: the header message is made on first use.
Header ==
  /\ wpc = "idle"
  /\ hdr = None
  /\ hdr' = Some([Status |-> <<>>])
  /\ UNCHANGED <<inbox, asub, acks, pending, mu, wpc, wdata, wret, returned,
                 out, written, acked, ackbus, processed>>
  /\ UNCHANGED <<cvars, mvars>>

\* nrw.WriteHeader: under the lock, add a Status value and publish w.hdr.
\* With w.hdr still nil the dereference panics and the process dies.
WriteHeader(statusCode) ==
  /\ wpc = "idle"
  /\ mu = "free"
  /\ NHdrs < MaxHdrs
  /\ IF hdr = None
     THEN /\ wpc' = "panic"
          /\ mu' = "writer"
          /\ UNCHANGED <<hdr, out>>
     ELSE /\ hdr' = Some([hdr[1] EXCEPT !.Status = Append(@, StatusLine(statusCode))])
          /\ out' = Append(out, HdrMsg(hdr'))
          /\ UNCHANGED <<wpc, mu>>
  /\ UNCHANGED <<inbox, asub, acks, pending, wdata, wret, returned,
                 written, acked, ackbus, processed>>
  /\ UNCHANGED <<cvars, mvars>>

\* The window check is missing: a Write never waits.
WindowNeverFull(p) == FALSE

\* Line 124: w.pending > defaultWindowSize.
WindowFull(p) == p > defaultWindowSize

\* The lock is kept while the Write waits.
LockKeptWhileWaiting == "writer"

\* Line 127: w.Unlock() before the select.
LockWhileWaiting == "free"

\* nrw.Write, lines 116-127: take the lock, set up the ack subscription on
\* the first call, and give the lock up to wait when the window is full.
WriteBegin(n) ==
  /\ wpc = "idle"
  /\ mu = "free"
  /\ wdata' = n
  /\ IF acks = None
     THEN /\ inbox' = NewInbox
          /\ asub' = "active"
          /\ acks' = Some(<<>>)
     ELSE UNCHANGED <<inbox, asub, acks>>
  /\ IF WindowFull(pending)
     THEN mu' = LockWhileWaiting /\ wpc' = "wait"
     ELSE mu' = "writer" /\ wpc' = "pub"
  /\ UNCHANGED <<hdr, pending, wret, returned, out, written, acked, ackbus,
                 processed>>
  /\ UNCHANGED <<cvars, mvars>>

\* A Write call of the handler, within the bound on the chunks of a transfer.
WriteCall(n) == NChunks < MaxWrites /\ WriteBegin(n)

\* The select has no timer case.
WakeOnGateOnly == {"gate"}

\* Lines 128-131: the two cases of the select.
WakeSources == {"gate", "timeout"}

\* nrw.Write, lines 128-132: the select returns on a token in the gate or
\* on the timer, and the lock is taken again.
WriteWake ==
  /\ wpc = "wait"
  /\ mu = LockWhileWaiting
  /\ \E via \in WakeSources :
       /\ via = "gate" => acks[1] # <<>>
       /\ acks' = IF via = "gate" THEN Some(Tail(acks[1])) ELSE acks
  /\ mu' = "writer"
  /\ wpc' = "pub"
  /\ UNCHANGED <<hdr, inbox, asub, pending, wdata, wret, returned, out,
                 written, acked, ackbus, processed>>
  /\ UNCHANGED <<cvars, mvars>>

\* The bytes are counted before the publish error is looked at.
FailedPublishCounted(p, n) == p + n

\* Lines 135-137: the return on a publish error comes before line 138.
FailedPublishPending(p, n) == p

\* nrw.Write, lines 134-137: publish the chunk with its ack reply; a publish
\* error is returned with 0 bytes (the deferred Unlock runs).
WritePublish ==
  /\ wpc = "pub"
  /\ \E ok \in BOOLEAN :
       IF ok
       THEN /\ out' = Append(out, ChunkMsg(AckReply(inbox, wdata), wdata))
            /\ wpc' = "add"
            /\ UNCHANGED <<mu, wret, pending>>
       ELSE /\ wret' = [n |-> 0, err |-> "publish"]
            /\ pending' = FailedPublishPending(pending, wdata)
            /\ wpc' = "idle"
            /\ mu' = "free"
            /\ UNCHANGED out
  /\ UNCHANGED <<hdr, inbox, asub, acks, wdata, returned,
                 written, acked, ackbus, processed>>
  /\ UNCHANGED <<cvars, mvars>>

\* nrw.Write, lines 138-139: count the bytes, return, unlock.
WriteAdd ==
  /\ wpc = "add"
  /\ pending' = pending + wdata
  /\ written' = written \cup {Len(out)}
  /\ wret' = [n |-> wdata, err |-> Nil]
  /\ wpc' = "idle"
  /\ mu' = "free"
  /\ UNCHANGED <<hdr, inbox, asub, acks, wdata, returned, out, acked, ackbus,
                 processed>>
  /\ UNCHANGED <<cvars, mvars>>

\* natsHandleFunc, lines 170-173: the handler returns and the goroutine
\* unsubscribes under the lock (Unsubscribe of a nil subscription is an
\* error return, not a panic).
HandlerReturn ==
  /\ wpc = "idle"
  /\ mu = "free"
  /\ ~returned
  /\ returned' = TRUE
  /\ asub' = IF asub = "active" THEN "unsub" ELSE asub
  /\ UNCHANGED <<hdr, inbox, acks, pending, mu, wpc, wdata, wret, out,
                 written, acked, ackbus, processed>>
  /\ UNCHANGED <<cvars, mvars>>

\* Whether the ack callback can take the writer's lock.
AckUnlocked == TRUE

AckMayLock == mu = "free"

\* The callback leaves the counter alone.
flowAckIgnored(p, subject) == p

\* nrw.processFlowAck on a writer whose pending is p: the new w.pending for
\* an ack on `subject`.
flowAck(p, subject) ==
  LET tokens == Split(subject, ".")
  IN IF Len(tokens) < 2 THEN p
     ELSE LET chunkSize == Atoi(tokens[Len(tokens)])
          IN IF chunkSize.err THEN p
             ELSE p - chunkSize.val

\* nrw.processFlowAck: the new value of w.pending for an ack on `subject`.
processFlowAck(subject) == flowAck(pending, subject)

\* client main, line 131: msg.Respond(nil) publishes an empty message on the
\* reply address of a chunk; the client does so once per chunk it handles.
ClientAck(i) ==
  /\ i \in 1..Len(out)
  /\ i \notin acked
  /\ out[i].reply # <<>>
  /\ acked' = acked \cup {i}
  /\ ackbus' = ackbus \cup {[subj |-> out[i].reply, of |-> i]}
  /\ UNCHANGED <<hdr, inbox, asub, acks, pending, mu, wpc, wdata, wret,
                 returned, out, written, processed>>
  /\ UNCHANGED <<cvars, mvars>>

\* The bus hands an ack to the subscription "<inbox>.*", whose callback is
\* processFlowAck; without a live subscription the message is dropped.
AckDeliver(m) ==
  /\ m \in ackbus
  /\ wpc # "panic"
  /\ IF asub = "active" /\ SubjectMatches(inbox \o <<".", "*">>, m.subj)
     THEN /\ AckMayLock
          /\ pending' = processFlowAck(m.subj)
          /\ processed' = IF m.of = 0 THEN processed ELSE processed \cup {m.of}
     ELSE UNCHANGED <<pending, processed>>
  /\ ackbus' = ackbus \ {m}
  /\ UNCHANGED <<hdr, inbox, asub, acks, mu, wpc, wdata, wret, returned,
                 out, written, acked>>
  /\ UNCHANGED <<cvars, mvars>>

\* ------------------------------------------------------------ client
snippetSize == 32

\* utf8.RuneError, what an invalid byte decodes to.
RuneError == 65533

\* The runes `range string(s)` yields.  One- and two-byte forms are decoded;
\* ChunkPool holds no lead byte of a longer form.
RECURSIVE DecodeRunes(_)
DecodeRunes(b) ==
  IF b = <<>> THEN <<>>
  ELSE IF b[1] < 128 THEN <<b[1]>> \o DecodeRunes(Tail(b))
  ELSE IF b[1] \in 194..223 /\ Len(b) >= 2 /\ b[2] \in 128..191
       THEN <<(b[1] - 192) * 64 + (b[2] - 128)>>
            \o DecodeRunes(SubSeq(b, 3, Len(b)))
  ELSE <<RuneError>> \o DecodeRunes(Tail(b))

\* unicode.IsPrint on ASCII, Latin-1 and RuneError (all that ChunkPool
\* decodes to): no control characters, no-break space or soft hyphen.
IsPrint(r) ==
  IF r < 128 THEN r \in 32..126
  ELSE IF r <= 255 THEN r \in 161..255 /\ r # 173
  ELSE r = RuneError

\* isPrintable.
isPrintable(data) ==
  LET s == IF Len(data) > snippetSize THEN SubSeq(data, 1, snippetSize)
           ELSE data
      runes == DecodeRunes(s)
  IN \A i \in 1..Len(runes) : IsPrint(runes[i])

Rep(b, n) == [i \in 1..n |-> b]

\* The payloads of the body messages: empty, "A", NUL then "A", "e" with an
\* acute accent (two bytes), and a text longer than the snippet whose first
\* unprintable byte lies beyond it.
ChunkPool ==
  {<<>>, <<65>>, <<0, 65>>, <<195, 169>>, Rep(65, snippetSize) \o <<0>>}

\* A body chunk as nrw.Write publishes it.
BodyMsg(d) ==
  [header |-> None, data |-> d, reply |-> AckReply(NewInbox, Len(d))]

HeaderMsg(status, contentLength) ==
  [header |-> Some([Status |-> status, ContentLength |-> contentLength]),
   data |-> <<>>, reply |-> <<>>]

\* The first messages a client may meet: 200 with a Content-Length that is
\* a number, not a number or missing; other status lines; a message with no
\* headers; and the header message of a handler that called WriteHeader twice.
HeaderMsgs ==
  {HeaderMsg(<<StatusLine(200)>>, c) :
     c \in {<<Itoa(0)>>, <<Itoa(3)>>, <<Itoa(35)>>, <<<<"x">>>>, <<>>}}
  \cup {HeaderMsg(<<StatusLine(c)>>, <<Itoa(3)>>) : c \in {204, 404, 2001}}
  \cup {HeaderMsg(<<StatusLine(200), StatusLine(404)>>, <<Itoa(3)>>)}
  \cup {[header |-> None, data |-> <<65>>, reply |-> <<>>]}

\* msg.Header.Get(key): the first value, "" when there is none.
HeaderGet(m, key) ==
  IF m.header = None THEN <<>>
  ELSE IF m.header[1][key] = <<>> THEN <<>>
  ELSE m.header[1][key][1]

\* The handler's first publish reaches the client's subscription.
EnvSendHeader(h) ==
  /\ cpc = "first"
  /\ inq = <<>>
  /\ inq' = <<h>>
  /\ UNCHANGED <<output, cpc, cerr, first, fd, cl, received, checked, msg,
                 sent, consumed, rxFault, classified, sunk, cacks>>
  /\ UNCHANGED <<svars, mvars>>

\* A body chunk reaches the client's subscription.
EnvSendChunk(d) ==
  /\ cpc \notin {"done", "failed"}
  /\ first # None \/ inq # <<>>
  /\ Len(sent) < MaxMsgs
  /\ inq' = Append(inq, BodyMsg(d))
  /\ sent' = Append(sent, BodyMsg(d))
  /\ UNCHANGED <<output, cpc, cerr, first, fd, cl, received, checked, msg,
                 consumed, rxFault, classified, sunk, cacks>>
  /\ UNCHANGED <<svars, mvars>>

\* The status check of line 89 accepts any status line in the 2xx class.
StatusOKAny2xx(status) == HasPrefix(status, <<"2">>)

\* Line 89: strings.HasPrefix(status, "200").
StatusOK(status) == HasPrefix(status, <<"2", "0", "0">>)

\* Lines 88-111 on the first message: where main goes, with which Fatalf,
\* Content-Length and output file.
HeaderOutcome(m, openOk) ==
  LET status == HeaderGet(m, "Status")
      c == Atoi(HeaderGet(m, "ContentLength"))
  IN IF ~StatusOK(status)
     THEN [pc |-> "failed", err |-> [kind |-> "status", text |-> status],
           cl |-> 0, fd |-> FALSE]
     ELSE IF c.err
     THEN [pc |-> "failed", err |-> [kind |-> "content-length", text |-> <<>>],
           cl |-> 0, fd |-> FALSE]
     ELSE IF output /\ ~openOk
     THEN [pc |-> "failed", err |-> [kind |-> "open", text |-> <<>>],
           cl |-> c.val, fd |-> FALSE]
     ELSE [pc |-> "loop", err |-> NoErr, cl |-> c.val, fd |-> output]

\* sub.NextMsg(2 * time.Second): a message when one waits, a timeout when
\* none does, or an error of the connection.
NextMsgResults == {"msg", "timeout", "err"}

NextMsgMay(r) ==
  /\ r = "msg" => inq # <<>>
  /\ r = "timeout" => inq = <<>>

\* client main, lines 81-111: the first message, its Status and
\* Content-Length, and the output file.
AwaitHeader ==
  /\ cpc = "first"
  /\ \E r \in NextMsgResults, openOk \in BOOLEAN :
       /\ NextMsgMay(r)
       /\ IF r # "msg"
          THEN /\ cpc' = "failed"
               /\ cerr' = [kind |-> "request", text |-> <<>>]
               /\ UNCHANGED <<first, inq, cl, fd>>
          ELSE LET o == HeaderOutcome(Head(inq), openOk)
               IN /\ first' = Some(Head(inq))
                  /\ inq' = Tail(inq)
                  /\ cpc' = o.pc
                  /\ cerr' = o.err
                  /\ cl' = o.cl
                  /\ fd' = o.fd
  /\ UNCHANGED <<output, received, checked, msg, sent, consumed, rxFault,
                 classified, sunk, cacks>>
  /\ UNCHANGED <<svars, mvars>>

\* The loop goes on while received is at most cl.
LoopCondInclusive(r, c) == r <= c

\* Line 113: the loop's condition.
LoopCond(r, c) == r < c

\* client main, line 113: the loop's test.
LoopCheck ==
  /\ cpc = "loop"
  /\ cpc' = IF LoopCond(received, cl) THEN "next" ELSE "done"
  /\ UNCHANGED <<output, cerr, first, fd, cl, received, checked, msg, inq,
                 sent, consumed, rxFault, classified, sunk, cacks>>
  /\ UNCHANGED <<svars, mvars>>

\* A failed receive starts the loop over.
RecvFailRetries == "loop"

\* Lines 115-117: a failed receive breaks out of the loop.
RecvFailPc == "done"

\* The printable check runs on every chunk when there is no file.
NeedsCheckEveryChunk(chk, file) == ~file

\* Line 118: !checked && fd == nil.
NeedsCheck(chk, file) == ~chk /\ ~file

\* client main, lines 114-124: receive a chunk; stop on a failed receive or
\* an empty chunk; refuse binary data when there is no output file.
NextMsg ==
  /\ cpc = "next"
  /\ \E r \in NextMsgResults :
       /\ NextMsgMay(r)
       /\ IF r # "msg"
          THEN /\ rxFault' = TRUE
               /\ cpc' = RecvFailPc
               /\ msg' = NoMsg
               /\ UNCHANGED <<inq, consumed, classified, checked, cerr>>
          ELSE LET m == Head(inq)
               IN /\ inq' = Tail(inq)
                  /\ consumed' = Append(consumed, m)
                  /\ msg' = m
                  /\ UNCHANGED rxFault
                  /\ IF Len(m.data) = 0
                     THEN /\ cpc' = "done"
                          /\ UNCHANGED <<classified, checked, cerr>>
                     ELSE IF NeedsCheck(checked, fd)
                     THEN /\ classified' = Append(classified, m.data)
                          /\ IF isPrintable(m.data)
                             THEN /\ checked' = TRUE
                                  /\ cpc' = "sink"
                                  /\ UNCHANGED cerr
                             ELSE /\ cpc' = "failed"
                                  /\ cerr' = [kind |-> "binary", text |-> <<>>]
                                  /\ UNCHANGED checked
                     ELSE /\ cpc' = "sink"
                          /\ UNCHANGED <<classified, checked, cerr>>
  /\ UNCHANGED <<output, first, fd, cl, received, sent, sunk, cacks>>
  /\ UNCHANGED <<svars, mvars>>

\* client main, lines 125-129: fd.Write, whose error is dropped, or the
\* console.
SinkWrite ==
  /\ cpc = "sink"
  /\ \E ok \in (IF fd THEN BOOLEAN ELSE {TRUE}) :
       sunk' = Append(sunk, [data |-> msg.data, reply |-> msg.reply, ok |-> ok])
  /\ cpc' = "ack"
  /\ UNCHANGED <<output, cerr, first, fd, cl, received, checked, msg, inq,
                 sent, consumed, rxFault, classified, cacks>>
  /\ UNCHANGED <<svars, mvars>>

\* The ack goes to the reply address of the request.
RespondOnRequestReply(m, published) == Append(published, ReplySubject)

\* msg.Respond(nil): an empty message on m.Reply; without a reply address
\* it is an error and nothing is published.
RespondTo(m, published) ==
  IF m.reply = <<>> THEN published ELSE Append(published, m.reply)

\* client main, line 131 and the loop's post statement: ack the chunk, then
\* received += len(msg.Data).
Respond ==
  /\ cpc = "ack"
  /\ cacks' = RespondTo(msg, cacks)
  /\ received' = received + Len(msg.data)
  /\ cpc' = "loop"
  /\ UNCHANGED <<output, cerr, first, fd, cl, checked, msg, inq, sent,
                 consumed, rxFault, classified, sunk>>
  /\ UNCHANGED <<svars, mvars>>

ClientInit == ServerInit /\ (\E o \in BOOLEAN : ClientStart(o)) /\ MultiStart

ClientNext ==
  \/ \E h \in HeaderMsgs : EnvSendHeader(h)
  \/ \E d \in ChunkPool : EnvSendChunk(d)
  \/ AwaitHeader
  \/ LoopCheck
  \/ NextMsg
  \/ SinkWrite
  \/ Respond

ClientSpec == ClientInit /\ [][ClientNext]_vars

\* ------------------------------------------------------------ claims
RECURSIVE SumSizes(_)
\* The sum of the sizes of the messages of out at the indices in S.
SumSizes(S) ==
  IF S = {} THEN 0
  ELSE LET i == CHOOSE x \in S : TRUE
       IN out[i].size + SumSizes(S \ {i})

\* C1: the pending-byte counter of a transfer is never negative, whatever
\* the interleaving of Write calls and ack callbacks, with the client acking
\* each chunk at most once on the chunk's own reply address.
C1_PendingNonNegative == pending >= 0

\* An ack was subtracted while another chunk is still counted.
C1_Witness == processed # {} /\ pending > 0

\* C2: pending-bytes equals the sizes of the chunks written minus the sizes
\* of the chunks whose ack was processed, whatever the order of the acks.
C2_PendingIsWrittenMinusAcked ==
  pending = SumSizes(written) - SumSizes(processed)

\* The ack of a later chunk was processed before the ack of an earlier one.
C2_Witness ==
  \E i \in written, j \in processed :
    i < j /\ i \notin processed /\ out[i].size # out[j].size /\ out[j].size > 0

\* C4: the first message published on the reply address is the header
\* message, and a transfer publishes at most one header message, whatever
\* calls the handler makes on the writer.
C4_HeaderFirstAndOnce ==
  /\ out # <<>> => ~IsChunk(out[1])
  /\ NHdrs <= 1

\* C5: after the first WriteHeader call, a further call publishes nothing
\* and leaves the header message's Status as it is.
C5_LaterWriteHeaderIgnored ==
  [][(hdr # None /\ hdr[1].Status # <<>>) => (hdr' = hdr /\ NHdrs' = NHdrs)]_vars

\* C6: once the writer is closed, a Write fails with the closed-writer
\* error, publishes no chunk and leaves pending-bytes alone.
C6_WriteAfterCloseFails ==
  [][returned => /\ NChunks' = NChunks
                 /\ pending' = pending
                 /\ wret' # wret => wret'.err = "closed writer"]_vars

RECURSIVE SumData(_)
\* The bytes of a sequence of messages.
SumData(ms) ==
  IF ms = <<>> THEN 0 ELSE Len(Head(ms).data) + SumData(Tail(ms))

\* The client got past the header message and into its body loop.
BodyStarted ==
  \/ cpc \in {"loop", "next", "sink", "ack", "done"}
  \/ cpc = "failed" /\ cerr.kind = "binary"

\* The body messages delivered are non-empty chunks that add up to the
\* Content-Length of a 200 header message, and no receive timed out or failed.
StreamMatches ==
  /\ BodyStarted
  /\ ~rxFault
  /\ \A i \in 1..Len(sent) : sent[i].data # <<>>
  /\ SumData(sent) = cl

\* C3 as claimed: whenever the chunks add up to Content-Length and no
\* receive times out or fails, the client ends having consumed exactly those
\* chunks with received = Content-Length, and never asks for a message once
\* the total is reached.
C3_AsClaimed ==
  /\ (StreamMatches /\ cpc \in {"done", "failed"}) =>
       (cpc = "done" /\ received = cl /\ consumed = sent)
  /\ (BodyStarted /\ cpc = "next") => received < cl

\* C3, amended: the same, provided an output file is open or the first
\* chunk is printable (binary data without an output file is refused).
C3_TotalEqualsContentLength ==
  /\ (/\ StreamMatches
      /\ fd \/ sent = <<>> \/ isPrintable(sent[1].data)
      /\ cpc \in {"done", "failed"}) =>
       (cpc = "done" /\ received = cl /\ consumed = sent)
  /\ (BodyStarted /\ cpc = "next") => received < cl

\* Two or more chunks were consumed up to a positive Content-Length.
C3_Witness ==
  cpc = "done" /\ StreamMatches /\ Len(sent) >= 2 /\ received = cl /\ ~fd

\* C7: every non-empty chunk passed to the sink is acked by one empty reply
\* on the chunk's own reply address, after the write, before the next
\* receive, and whether or not the write succeeded.
C7_EveryChunkAckedOnce ==
  /\ Len(cacks) = (IF cpc = "ack" THEN Len(sunk) - 1 ELSE Len(sunk))
  /\ \A i \in 1..Len(cacks) : cacks[i] = sunk[i].reply
  /\ \A i \in 1..Len(sunk) :
       /\ sunk[i].data # <<>>
       /\ sunk[i].data = consumed[i].data
       /\ sunk[i].reply = consumed[i].reply

\* A chunk whose write to the file failed was acked, and so was a chunk of
\* another size.
C7_Witness ==
  /\ cpc = "next"
  /\ \E i, j \in 1..Len(cacks) : ~sunk[i].ok /\ cacks[i] # cacks[j]

\* C8: a first message whose Status does not start with "200" makes the
\* client fail at once with that status text; no chunk is consumed, nothing
\* is written and no ack is published.
C8_Non200FailsAtOnce ==
  (first # None /\ ~HasPrefix(HeaderGet(first[1], "Status"), <<"2", "0", "0">>)) =>
    /\ cpc = "failed"
    /\ cerr = [kind |-> "status", text |-> HeaderGet(first[1], "Status")]
    /\ consumed = <<>>
    /\ sunk = <<>>
    /\ cacks = <<>>

\* The client failed on "404 Not Found" with body chunks waiting.
C8_Witness ==
  cerr = [kind |-> "status", text |-> StatusLine(404)] /\ inq # <<>>

\* The non-empty messages of a sequence.
NonEmpty(ms) == SelectSeq(ms, LAMBDA m : m.data # <<>>)

\* C9: a failed receive or an empty chunk before received reaches
\* Content-Length ends the loop with no error and no further receive; the
\* chunks output and acked are exactly the chunks received until then.
C9_ShortStreamEndsQuietly ==
  /\ rxFault => cpc = "done"
  /\ (consumed # <<>> /\ consumed[Len(consumed)].data = <<>>) => cpc = "done"
  /\ cpc = "done" => cerr = NoErr
  /\ (cpc = "done" /\ received < cl) =>
       /\ rxFault \/ (consumed # <<>> /\ consumed[Len(consumed)].data = <<>>)
       /\ [i \in 1..Len(sunk) |-> sunk[i].data]
            = [i \in 1..Len(NonEmpty(consumed)) |-> NonEmpty(consumed)[i].data]
       /\ cacks = [i \in 1..Len(NonEmpty(consumed)) |-> NonEmpty(consumed)[i].reply]
       /\ received = SumData(consumed)

\* The stream stopped short after some bytes and a receive timed out.
C9_Witness ==
  cpc = "done" /\ rxFault /\ received > 0 /\ received < cl /\ Len(cacks) >= 1

\* C10: with no output file, a binary first non-empty chunk makes the client
\* fail with the refusal before any body data is emitted and no further
\* chunk is consumed; isPrintable runs at most once, on the first non-empty
\* chunk, and never with an output file.
C10_BinaryRefused ==
  /\ Len(classified) <= 1
  /\ classified # <<>> =>
       /\ ~fd
       /\ consumed[1].data # <<>>
       /\ classified[1] = consumed[1].data
  /\ (~fd /\ consumed # <<>> /\ consumed[1].data # <<>>) => classified # <<>>
  /\ (classified # <<>> /\ ~isPrintable(classified[1])) =>
       /\ cpc = "failed"
       /\ cerr.kind = "binary"
       /\ sunk = <<>>
       /\ cacks = <<>>
       /\ Len(consumed) = 1

\* The refusal happened with more chunks waiting.
C10_Witness == cerr.kind = "binary" /\ inq # <<>>

\* ---- claims C11..C20
\* Subjects under the inbox whose last token is no number; no client of
\* this protocol acks on them.
ForgedSubjects == {NewInbox \o <<".", "x">>, NewInbox \o <<".", "1", "x">>}

\* Some other user of the bus publishes on a subject under the inbox.
ForgedAck(subject) ==
  /\ inbox # <<>>
  /\ [subj |-> subject, of |-> 0] \notin ackbus
  /\ ackbus' = ackbus \cup {[subj |-> subject, of |-> 0]}
  /\ UNCHANGED <<hdr, inbox, asub, acks, pending, mu, wpc, wdata, wret,
                 returned, out, written, acked, processed>>
  /\ UNCHANGED <<cvars, mvars>>

\* A transfer's writes and acks, with malformed acks thrown in.
AckNext ==
  \/ \E n \in ChunkSizes : WriteCall(n)
  \/ WriteWake
  \/ WritePublish
  \/ WriteAdd
  \/ HandlerReturn
  \/ \E i \in 1..Len(out) : ClientAck(i)
  \/ \E s \in ForgedSubjects : ForgedAck(s)
  \/ \E m \in ackbus : AckDeliver(m)

AckSpec == Init /\ [][AckNext]_vars

\* A decimal number: an optional sign and one or more digits.
IsDecimal(tok) ==
  LET body == IF tok # <<>> /\ tok[1] \in {"+", "-"} THEN Tail(tok) ELSE tok
  IN body # <<>> /\ \A i \in 1..Len(body) : IsDigit(body[i])

Malformed(subject) ==
  LET t == Split(subject, ".")
  IN Len(t) < 2 \/ ~IsDecimal(t[Len(t)])

\* C11: the delivery of an ack with a malformed subject changes no field of
\* the writer, and pending-bytes stays the sizes written minus the sizes
\* acked through the writes and acks that follow.
C11_MalformedAckIgnored ==
  /\ [](pending = SumSizes(written) - SumSizes(processed))
  /\ [][\A m \in ackbus :
          (Malformed(m.subj) /\ ackbus' = ackbus \ {m}) =>
            UNCHANGED <<hdr, inbox, asub, acks, pending, mu, wpc, wdata, wret,
                        returned, out, written, processed>>]_vars

\* A malformed ack is on its way to a live subscription that has processed
\* an ack and still counts bytes.
C11_Witness ==
  /\ asub = "active"
  /\ pending > 0
  /\ processed # {}
  /\ \E m \in ackbus : m.of = 0 /\ SubjectMatches(inbox \o <<".", "*">>, m.subj)

\* A transfer's writes and the acks of its chunks.  An ack in flight may be
\* delivered at any time or never (no fairness asks for its delivery).
FlowNext ==
  \/ \E n \in ChunkSizes : WriteCall(n)
  \/ WriteWake
  \/ WritePublish
  \/ WriteAdd
  \/ HandlerReturn
  \/ \E i \in 1..Len(out) : ClientAck(i)
  \/ \E m \in ackbus : AckDeliver(m)

\* The timer of the select fires, and the goroutine in Write is scheduled.
LiveSpec ==
  /\ Init
  /\ [][FlowNext]_vars
  /\ WF_vars(WriteWake)
  /\ WF_vars(WritePublish)
  /\ WF_vars(WriteAdd)

\* C12: every Write call that has started returns, also one that found the
\* window full and whose acks never arrive.
C12_WriteCompletes == (wpc \in {"wait", "pub", "add"}) ~> (wpc = "idle")

\* Two chunks were written with the window full and no ack ever processed.
C12_Witness ==
  /\ wpc = "idle"
  /\ processed = {}
  /\ Cardinality(written) >= 2
  /\ pending > defaultWindowSize

\* C13: an ack processed while a Write waits on the gate releases it: the
\* gate then holds a token, so the select returns without the timer.
C13_AckReleasesWaitingWrite ==
  [][(wpc = "wait" /\ processed' # processed) => acks'[1] # <<>>]_vars

\* ---- Scenario D: equal writes past the window, an ack after every write
\* The number of writes of the scenario's transfer.
ScenarioWrites == 40

\* The size of each write: 1 MiB.
ScenarioChunk == 1024 * 1024

\* The handler sets up its header and sends the status first.
ScenarioHeader == out = <<>> /\ Header

ScenarioStatus == hdr # None /\ out = <<>> /\ WriteHeader(200)

\* The handler copies the file in equal writes and stops at a write error.
ScenarioWrite ==
  /\ NHdrs = 1
  /\ NChunks < ScenarioWrites
  /\ wret.err = Nil
  /\ ~returned
  /\ WriteBegin(ScenarioChunk)

ScenarioReturn ==
  /\ NChunks = ScenarioWrites \/ wret.err # Nil
  /\ HandlerReturn

\* The client's loop acks the chunks in the order it receives them, and the
\* bus keeps the order of one publisher's messages.
ScenarioAck ==
  \E i \in 1..Len(out) :
    /\ \A j \in 1..(i - 1) : out[j].reply # <<>> => j \in acked
    /\ ClientAck(i)

ScenarioDeliver ==
  \E m \in ackbus :
    /\ \A o \in ackbus : m.of <= o.of
    /\ AckDeliver(m)

ScenarioNext ==
  \/ ScenarioHeader
  \/ ScenarioStatus
  \/ ScenarioWrite
  \/ WriteWake
  \/ WritePublish
  \/ WriteAdd
  \/ ScenarioReturn
  \/ ScenarioAck
  \/ ScenarioDeliver

ScenarioSpec ==
  /\ Init
  /\ [][ScenarioNext]_vars
  /\ WF_vars(WriteWake)
  /\ WF_vars(WritePublish)
  /\ WF_vars(WriteAdd)

\* C14: in Scenario D a Write that waits on the full window goes on to its
\* publish, and pending is 0 whenever the ack of every chunk written has
\* been processed.
C14_ScenarioD ==
  /\ (wpc = "wait") ~> (wpc = "pub")
  /\ [](processed = written => pending = 0)

\* All the writes of the scenario are done and all their acks processed.
C14_Witness ==
  /\ Cardinality(written) = ScenarioWrites
  /\ processed = written
  /\ pending = 0

\* C16: once the handler has returned, no ack subscription of the transfer
\* is active, and one that was made has been unsubscribed.
C16_SubscriptionReleased ==
  returned => (asub # "active" /\ (inbox # <<>> => asub = "unsub"))

\* C17: a failed publish makes Write return the error with zero bytes,
\* pending-bytes unchanged, and the call is over (no second publish).
C17_PublishErrorReturned ==
  [][(wpc = "pub" /\ wpc' # "pub" /\ out' = out) =>
       /\ wret' = [n |-> 0, err |-> "publish"]
       /\ pending' = pending
       /\ wpc' = "idle"]_vars

\* A publish failed while bytes of an earlier chunk were outstanding.
C17_Witness == wret.err = "publish" /\ wpc = "idle" /\ pending > 0

\* C18 as claimed: the writer holds the lock neither while it publishes nor
\* while it waits on the gate or the timer.
C18_AsClaimed == wpc \in {"pub", "wait"} => mu # "writer"

\* C18, amended: the writer never holds the lock while it waits on the gate
\* or the timer; it holds it from before the publish of a chunk until the
\* counter is updated.
C18_LockFreeWhileWaiting ==
  /\ wpc = "wait" => mu = "free"
  /\ wpc \in {"pub", "add"} => mu = "writer"

\* A Write waits, lock free, with an ack in flight.
C18_Witness == wpc = "wait" /\ mu = "free" /\ ackbus # {}

\* C19: a Write goes straight to the publish only with pending-bytes at most
\* the ceiling; above it the Write waits, once, and then publishes whatever
\* pending-bytes is.
C19_PauseOnceThenPublish ==
  [][/\ (wpc = "idle" /\ wpc' = "pub") => pending <= defaultWindowSize
     /\ (wpc = "idle" /\ wpc' = "wait") => pending > defaultWindowSize
     /\ (wpc = "wait" /\ wpc' # "wait") => wpc' = "pub"
     /\ (wpc = "pub" /\ wpc' # "pub") => wpc' \in {"add", "idle"}]_vars

\* A Write is at its publish, after the wait, with the window still full.
C19_Witness == wpc = "pub" /\ pending > defaultWindowSize

\* ---- several requests at once: one writer per request
\* Every transfer gets the same inbox.
SharedInbox(t) == NewInbox

\* What nats.NewInbox returns for transfer t: a subject of its own.
NewInboxOf(t) == <<"_INBOX", ".">> \o Itoa(t)

\* The callback runs the handler itself and returns when the handler does.
HandlerInline(t) == {t}

\* Lines 169-174: `go func() {...}()`, and the callback returns.
HandlerSpawned(t) == {}

\* len(data) of the Write calls of these handlers.
MultiChunk == 40 * 1024 * 1024

\* A request message arrives on the subject.
MRequest(t) ==
  /\ tr[t].st = "none"
  /\ tr' = [tr EXCEPT ![t].st = "queued"]
  /\ reqs' = Append(reqs, t)
  /\ UNCHANGED <<disp, abus>>
  /\ UNCHANGED <<svars, cvars>>

\* natsHandleFunc, lines 150-166: the subscription calls the callback with
\* the next request, one call at a time; the callback makes req and w.
MCallback ==
  /\ reqs # <<>>
  /\ disp = {}
  /\ disp' = {Head(reqs)}
  /\ reqs' = Tail(reqs)
  /\ tr' = [tr EXCEPT ![Head(reqs)].st = "accepting"]
  /\ UNCHANGED abus
  /\ UNCHANGED <<svars, cvars>>

\* natsHandleFunc, lines 169-174: the handler is started.
MSpawn(t) ==
  /\ tr[t].st = "accepting"
  /\ disp = {t}
  /\ tr' = [tr EXCEPT ![t].st = "running"]
  /\ disp' = HandlerSpawned(t)
  /\ UNCHANGED <<reqs, abus>>
  /\ UNCHANGED <<svars, cvars>>

\* nrw.Write of transfer t, lines 116-127.
MWriteBegin(t) ==
  /\ tr[t].st = "running"
  /\ tr[t].wpc = "idle"
  /\ tr[t].mu = "free"
  /\ tr[t].nout < MaxWrites
  /\ LET w == tr[t]
         w1 == IF w.acks = None
               THEN [w EXCEPT !.inbox = NewInboxOf(t), !.asub = "active",
                              !.acks = Some(<<>>)]
               ELSE w
     IN tr' = [tr EXCEPT ![t] =
                 IF WindowFull(w.pending)
                 THEN [w1 EXCEPT !.mu = LockWhileWaiting, !.wpc = "wait"]
                 ELSE [w1 EXCEPT !.mu = "writer", !.wpc = "pub"]]
  /\ UNCHANGED <<reqs, disp, abus>>
  /\ UNCHANGED <<svars, cvars>>

\* nrw.Write of transfer t, lines 128-132.
MWake(t) ==
  /\ tr[t].wpc = "wait"
  /\ tr[t].mu = LockWhileWaiting
  /\ \E via \in WakeSources :
       /\ via = "gate" => tr[t].acks[1] # <<>>
       /\ tr' = [tr EXCEPT ![t].acks = IF via = "gate"
                                       THEN Some(Tail(tr[t].acks[1]))
                                       ELSE @,
                           ![t].mu = "writer",
                           ![t].wpc = "pub"]
  /\ UNCHANGED <<reqs, disp, abus>>
  /\ UNCHANGED <<svars, cvars>>

\* nrw.Write of transfer t, lines 134-137.
MPublish(t) ==
  /\ tr[t].wpc = "pub"
  /\ \E ok \in BOOLEAN :
       tr' = [tr EXCEPT ![t] =
                IF ok
                THEN [@ EXCEPT !.nout = @ + 1, !.wpc = "add"]
                ELSE [@ EXCEPT !.pending = FailedPublishPending(@, MultiChunk),
                               !.wpc = "idle", !.mu = "free"]]
  /\ UNCHANGED <<reqs, disp, abus>>
  /\ UNCHANGED <<svars, cvars>>

\* nrw.Write of transfer t, lines 138-139.
MAdd(t) ==
  /\ tr[t].wpc = "add"
  /\ tr' = [tr EXCEPT ![t].pending = @ + MultiChunk,
                      ![t].wpc = "idle",
                      ![t].mu = "free"]
  /\ UNCHANGED <<reqs, disp, abus>>
  /\ UNCHANGED <<svars, cvars>>

\* natsHandleFunc, lines 170-173: the handler of transfer t returns and its
\* goroutine unsubscribes.
MReturn(t) ==
  /\ tr[t].st = "running"
  /\ tr[t].wpc = "idle"
  /\ tr[t].mu = "free"
  /\ tr' = [tr EXCEPT ![t].st = "returned",
                      ![t].asub = IF @ = "active" THEN "unsub" ELSE @]
  /\ disp' = disp \ {t}
  /\ UNCHANGED <<reqs, abus>>
  /\ UNCHANGED <<svars, cvars>>

\* The subscriptions an ack on `subject` is routed to.
Recipients(subject) ==
  {u \in Transfers : /\ tr[u].asub = "active"
                     /\ SubjectMatches(tr[u].inbox \o <<".", "*">>, subject)}

\* client main, line 131: the client of transfer t acks its k-th chunk on the
\* chunk's reply address.
MAck(t, k) ==
  /\ k \in 1..tr[t].nout
  /\ k \notin tr[t].acked
  /\ tr' = [tr EXCEPT ![t].acked = @ \cup {k}]
  /\ abus' = abus \cup
       {[subj |-> AckReply(tr[t].inbox, MultiChunk), to |-> u, of |-> t,
         k |-> k] : u \in Recipients(AckReply(tr[t].inbox, MultiChunk))}
  /\ UNCHANGED <<reqs, disp>>
  /\ UNCHANGED <<svars, cvars>>

\* The ack reaches processFlowAck of the writer it was routed to, unless
\* that writer has unsubscribed.
MDeliver(d) ==
  /\ d \in abus
  /\ abus' = abus \ {d}
  /\ IF tr[d.to].asub = "active"
     THEN /\ tr[d.to].mu = "free"
          /\ tr' = [tr EXCEPT ![d.to].pending = flowAck(@, d.subj),
                              ![d.to].processed = @ \cup {<<d.of, d.k>>}]
     ELSE UNCHANGED tr
  /\ UNCHANGED <<reqs, disp>>
  /\ UNCHANGED <<svars, cvars>>

\* A step of the handler of transfer t.
HandlerStep(t) ==
  \/ MWriteBegin(t)
  \/ MWake(t)
  \/ MPublish(t)
  \/ MAdd(t)
  \/ MReturn(t)

MultiNext ==
  \/ \E t \in Transfers : MRequest(t)
  \/ MCallback
  \/ \E t \in Transfers : MSpawn(t)
  \/ \E t \in Transfers : MWriteBegin(t)
  \/ \E t \in Transfers : MWake(t)
  \/ \E t \in Transfers : MPublish(t)
  \/ \E t \in Transfers : MAdd(t)
  \/ \E t \in Transfers : MReturn(t)
  \/ \E t \in Transfers : \E k \in 1..MaxWrites : MAck(t, k)
  \/ \E d \in abus : MDeliver(d)

MultiSpec == Init /\ [][MultiNext]_vars

\* The transfer is paused on a full window.
Paused(t) ==
  /\ tr[t].st = "running"
  /\ tr[t].wpc = "wait" \/ WindowFull(tr[t].pending)

\* C15: while the transfer of one request is paused on a full window, a
\* request that is waiting can be taken by the subscription and the handler
\* of every other running transfer can take its next step.
C15_OwnTaskPerRequest ==
  \A t \in Transfers : Paused(t) =>
    /\ reqs # <<>> => ENABLED MCallback
    /\ \A u \in Transfers \ {t} :
         /\ tr[u].st = "accepting" => ENABLED MSpawn(u)
         /\ tr[u].st = "running" => ENABLED HandlerStep(u)

\* One transfer waits on its full window while a later one is mid-write.
C15_Witness ==
  \E t \in Transfers : \E u \in Transfers \ {t} :
    /\ tr[t].wpc = "wait"
    /\ tr[u].wpc = "add"

\* The chunks of transfer t counted into its pending.
WrittenOf(t) == tr[t].nout - (IF tr[t].wpc = "add" THEN 1 ELSE 0)

\* C20: two transfers have different inboxes, each one's pending counts its
\* own chunks and acks only, and a step changes the pending of a transfer
\* only if it is that transfer's Write or the callback of one of its acks.
C20_TransferScoped ==
  /\ [](\A t \in Transfers : \A u \in Transfers \ {t} :
          tr[t].inbox # <<>> => tr[t].inbox # tr[u].inbox)
  /\ [](\A t \in Transfers :
          /\ \A a \in tr[t].processed : a[1] = t
          /\ tr[t].pending =
               MultiChunk * (WrittenOf(t) - Cardinality(tr[t].processed)))
  /\ [][\A t \in Transfers : tr'[t].pending # tr[t].pending =>
          \/ tr[t].wpc = "add" /\ tr'[t].wpc = "idle"
          \/ \E d \in abus \ abus' : d.to = t /\ d.of = t]_vars

\* Both transfers are live, one with bytes pending and the other with an
\* ack processed and nothing pending.
C20_Witness ==
  \E t \in Transfers : \E u \in Transfers \ {t} :
    /\ tr[t].asub = "active" /\ tr[u].asub = "active"
    /\ tr[t].pending > 0
    /\ tr[u].pending = 0 /\ tr[u].processed # {}

Next ==
  \/ Header
  \/ \E c \in StatusCodes : WriteHeader(c)
  \/ \E n \in ChunkSizes : WriteCall(n)
  \/ WriteWake
  \/ WritePublish
  \/ WriteAdd
  \/ HandlerReturn
  \/ \E i \in 1..Len(out) : ClientAck(i)
  \/ \E m \in ackbus : AckDeliver(m)

Spec == Init /\ [][Next]_vars

=============================================================================
